---- MODULE Spec2Model ----
(***************************************************************************)
(* Conversation state machine of the DSPy editor chat frontend             *)
(* (frontend/src/App.tsx): the message log, handleSend (response           *)
(* ingestion) and handleSaveEdit (edit persistence), with every await a    *)
(* suspension point at which other handlers may run; and the two           *)
(* components that call them, MessageInput and ChatHistory.                *)
(*                                                                         *)
(* Text is a sequence of atoms: one atom per character for data-derived    *)
(* text, one atom per fixed fragment of a template literal.                *)
(***************************************************************************)
EXTENDS Integers, Sequences, FiniteSets, TLC

VARIABLES
    messages,       \* App.tsx:10  useState<ChatMessage[]>
    isGenerating,   \* App.tsx:11
    errorMessage,   \* App.tsx:12
    rendered,       \* the `messages` value closed over by handleSaveEdit (last
                    \* render), reduced to what the handler reads of it: id, turnId
    sends,          \* one record per handleSend invocation (its locals and position)
    saves,          \* one record per handleSaveEdit invocation
    requests,       \* fetch calls issued so far
    event,          \* the input of the last step: a call's arguments or the
                    \* settled value of the promise it was awaiting
    ui              \* the components' own state: ChatHistory.tsx:12-15 (editingId,
                    \* draft, savedIndicator, localError) and MessageInput's
                    \* prompt and isSubmitting

vars == <<messages, isGenerating, errorMessage, rendered, sends, saves, requests, event,
          ui>>

-----------------------------------------------------------------------------
\* Bounds of the model

MaxSends == 2
MaxSaves == 2
MaxChunks == 2
MaxStoreOps == 4

-----------------------------------------------------------------------------
\* JavaScript values

\* `undefined` for string-valued fields (turnId, status)
Undefined == "<undefined>"
\* `undefined` for text-valued fields (error)
NoText == <<"<undefined>">>
\* `null` for errorMessage and for an absent header
NullText == <<"<null>">>
Null == "<null>"

\* A presence test that takes the empty string for a value (s !== undefined)
DefinedStr(s) == s # Undefined /\ s # Null

\* JS truthiness of a string: the empty string is falsy, like undefined/null
TruthyStr(s) == s # Undefined /\ s # Null /\ s # ""

\* A JSON scalar read from a parsed body: t in {"undefined","string","number"}.
\* turn_id scalars hold their string in s; response scalars hold their text in x.
JsUndef == [t |-> "undefined", s |-> "", x |-> <<>>, n |-> 0]
JsStr(s) == [t |-> "string", s |-> s, x |-> <<>>, n |-> 0]
JsText(x) == [t |-> "string", s |-> "", x |-> x, n |-> 0]
JsNum(n) == [t |-> "number", s |-> "", x |-> <<>>, n |-> n]

\* JS truthiness of a scalar (App.tsx:64 `data?.turn_id`)
Truthy(v) ==
    CASE v.t = "string" -> v.s # ""
      [] v.t = "number" -> v.n # 0
      [] OTHER -> FALSE

\* String(v) (App.tsx:65)
JsString(v) ==
    CASE v.t = "string" -> v.s
      [] v.t = "number" -> ToString(v.n)
      [] OTHER -> "undefined"

-----------------------------------------------------------------------------
\* Message Store

NewMessage(id, role, content, status) ==
    [id |-> id, role |-> role, content |-> content, status |-> status,
     turnId |-> Undefined, error |-> NoText]

\* A patch that replaces the message by the changes alone (drops the spread of
\* the old message): unnamed fields are lost
SpreadDropsOld(message, changes) ==
    [f \in DOMAIN message |->
        IF f \in DOMAIN changes THEN changes[f]
        ELSE IF f \in {"id", "role"} THEN message[f]
        ELSE IF f = "error" THEN NoText
        ELSE IF f = "content" THEN <<>>
        ELSE Undefined]

\* { ...message, ...changes }: every key of changes overrides, also when its
\* value is undefined
Spread(message, changes) ==
    [f \in DOMAIN message |-> IF f \in DOMAIN changes THEN changes[f] ELSE message[f]]

\* An updater that patches every message, matching no id
markMessageAll(prev, id, changes) ==
    [i \in 1..Len(prev) |-> Spread(prev[i], changes)]

\* markMessage's updater: prev.map(m => m.id === id ? {...m, ...changes} : m)
markMessage(prev, id, changes) ==
    [i \in 1..Len(prev) |->
        IF prev[i].id = id THEN Spread(prev[i], changes) ELSE prev[i]]

\* The new pair put first (newest on top)
AppendPairFirst(prev, userMessage, botMessage) == <<userMessage, botMessage>> \o prev

\* setMessages(prev => [...prev, userMessage, botMessage])
AppendPair(prev, userMessage, botMessage) == prev \o <<userMessage, botMessage>>

\* What handleSaveEdit reads of the messages it closes over: each id and turnId
Closure(msgs) == [i \in 1..Len(msgs) |-> [id |-> msgs[i].id, turnId |-> msgs[i].turnId]]

\* messages.find(m => m.id === messageId)?.turnId
FindTurnId(msgs, messageId) ==
    IF \E i \in 1..Len(msgs) : msgs[i].id = messageId
    THEN msgs[CHOOSE i \in 1..Len(msgs) :
                 msgs[i].id = messageId /\ \A j \in 1..(i-1) : msgs[j].id # messageId].turnId
    ELSE Undefined

\* An identifier that is not fresh: every call gets the first one
createIdRepeated(prefix, k) == prefix \o "-" \o ToString(1)

\* createId(prefix): a fresh identifier; the k-th one created with this prefix
createId(prefix, k) == prefix \o "-" \o ToString(k)

-----------------------------------------------------------------------------
\* TextDecoder (UTF-8, non-fatal, ignoreBOM = false), App.tsx:69,76,79

ReplacementChar == 65533
ByteOrderMark == 65279

\* new TextDecoder()
NewDecoder ==
    [cp |-> 0, seen |-> 0, needed |-> 0, lower |-> 128, upper |-> 191, bomSeen |-> FALSE]

ResetSequence(d) ==
    [d EXCEPT !.cp = 0, !.seen = 0, !.needed = 0, !.lower = 128, !.upper = 191]

\* One byte with no sequence pending: {d, out}
LeadByte(d, b) ==
    CASE b <= 127 -> [d |-> d, out |-> <<b>>]
      [] b \in 194..223 ->
            [d |-> [d EXCEPT !.needed = 1, !.cp = b % 32], out |-> <<>>]
      [] b \in 224..239 ->
            [d |-> [d EXCEPT !.needed = 2, !.cp = b % 16,
                             !.lower = IF b = 224 THEN 160 ELSE 128,
                             !.upper = IF b = 237 THEN 159 ELSE 191],
             out |-> <<>>]
      [] b \in 240..244 ->
            [d |-> [d EXCEPT !.needed = 3, !.cp = b % 8,
                             !.lower = IF b = 240 THEN 144 ELSE 128,
                             !.upper = IF b = 244 THEN 143 ELSE 191],
             out |-> <<>>]
      [] OTHER -> [d |-> d, out |-> <<ReplacementChar>>]

\* One byte through the UTF-8 decoder: {d, out}. A byte that cannot continue
\* the pending sequence ends it with U+FFFD and is then read as a lead byte.
DecodeByte(d, b) ==
    IF d.needed = 0 THEN LeadByte(d, b)
    ELSE IF b < d.lower \/ b > d.upper
         THEN LET r == LeadByte(ResetSequence(d), b)
              IN  [d |-> r.d, out |-> <<ReplacementChar>> \o r.out]
    ELSE LET cp == d.cp * 64 + (b % 64)
         IN  IF d.seen + 1 = d.needed
             THEN [d |-> ResetSequence(d), out |-> <<cp>>]
             ELSE [d |-> [d EXCEPT !.cp = cp, !.seen = d.seen + 1,
                                   !.lower = 128, !.upper = 191],
                   out |-> <<>>]

RECURSIVE DecodeBytes(_, _)
DecodeBytes(d, bytes) ==
    IF bytes = <<>> THEN [d |-> d, out |-> <<>>]
    ELSE LET r == DecodeByte(d, Head(bytes))
             rest == DecodeBytes(r.d, Tail(bytes))
         IN  [d |-> rest.d, out |-> r.out \o rest.out]

\* The first code point the decoder ever emits is dropped when it is a BOM
StripBom(d, out) ==
    IF d.bomSeen \/ out = <<>> THEN [d |-> d, out |-> out]
    ELSE [d |-> [d EXCEPT !.bomSeen = TRUE],
          out |-> IF Head(out) = ByteOrderMark THEN Tail(out) ELSE out]

\* One character of a string, from its code point
Chr(cp) ==
    CASE cp = 72 -> "H"
      [] cp = 105 -> "i"
      [] OTHER -> "U+" \o ToString(cp)

FromCodePoints(cps) == [i \in 1..Len(cps) |-> Chr(cps[i])]

\* A decoder that forgets the sequence a chunk left pending
DecodeStreamForgetful(d, value) ==
    LET r == DecodeBytes(ResetSequence(d), value)
        s == StripBom(r.d, r.out)
    IN  [d |-> s.d, text |-> FromCodePoints(s.out)]

\* decoder.decode(value, { stream: true }): {d, text}
DecodeStream(d, value) ==
    LET r == DecodeBytes(d, value)
        s == StripBom(r.d, r.out)
    IN  [d |-> s.d, text |-> FromCodePoints(s.out)]

\* decoder.decode(): end of input; a pending partial sequence becomes U+FFFD
\* and the decoder is reset: {d, text}
DecodeFlush(d) ==
    LET out == IF d.needed # 0 THEN <<ReplacementChar>> ELSE <<>>
        s == StripBom(d, out)
    IN  [d |-> NewDecoder, text |-> FromCodePoints(s.out)]

-----------------------------------------------------------------------------
\* Values thrown and parsed bodies

\* A thrown value: an Error instance with a message, or any other value
ErrorObject(message) == [isError |-> TRUE, message |-> message]
NonError == [isError |-> FALSE, message |-> <<>>]
NoThrow == [isError |-> FALSE, message |-> NoText]

\* await response.json(): null or an object with optional response / turn_id
JsonNull == [kind |-> "null", response |-> JsUndef, turn_id |-> JsUndef]
JsonObject(r, t) == [kind |-> "object", response |-> r, turn_id |-> t]

\* data?.response, data?.turn_id
DataResponse(data) == IF data.kind = "object" THEN data.response ELSE JsUndef
DataTurnId(data) == IF data.kind = "object" THEN data.turn_id ELSE JsUndef

\* JSON.stringify of a scalar that is not undefined
ScalarJson(v) ==
    CASE v.t = "number" -> <<ToString(v.n)>>
      [] v.x # <<>> -> <<"\"">> \o v.x \o <<"\"">>
      [] OTHER -> <<"\"", v.s, "\"">>

\* JSON.stringify(data) (App.tsx:62): members in insertion order
JsonStringify(data) ==
    IF data.kind = "null" THEN <<"null">>
    ELSE LET r == IF data.response.t = "undefined" THEN <<>>
                  ELSE <<"\"response\":">> \o ScalarJson(data.response)
             t == IF data.turn_id.t = "undefined" THEN <<>>
                  ELSE <<"\"turn_id\":">> \o ScalarJson(data.turn_id)
             sep == IF r # <<>> /\ t # <<>> THEN <<",">> ELSE <<>>
         IN  <<"{">> \o r \o sep \o t \o <<"}">>

-----------------------------------------------------------------------------
\* handleSend: pure parts

\* response.ok
ResponseOk(status) == status \in 200..299

\* contentType && contentType.includes('application/json') (App.tsx:57, 128)
IsJson(contentType) ==
    contentType # NullText /\ \E i \in 1..Len(contentType) : contentType[i] = "application/json"

\* `Unable to generate response (${response.status})` (App.tsx:50)
GenerateStatusError(status) == <<"Unable to generate response (", ToString(status), ")">>

\* error instanceof Error ? error.message : 'Unexpected error' (App.tsx:92)
SendErrorText(thrown) == IF thrown.isError THEN thrown.message ELSE <<"Unexpected error">>

\* response.headers.get('x-turn-id') ?? undefined (App.tsx:55)
HeaderTurnId(header) == IF header = Null THEN Undefined ELSE header

\* The body's turn_id taking precedence over the header's
BodyTurnIdFirst(turnId, data) ==
    IF Truthy(DataTurnId(data)) THEN JsString(DataTurnId(data)) ELSE turnId

\* if (!turnId && data?.turn_id) turnId = String(data.turn_id) (App.tsx:64-66)
BodyTurnId(turnId, data) ==
    IF ~TruthyStr(turnId) /\ Truthy(DataTurnId(data))
    THEN JsString(DataTurnId(data))
    ELSE turnId

\* The body always serialized, its `response` never unwrapped
JsonFinalContentSerialized(data) == JsonStringify(data)

\* typeof data?.response === 'string' ? data.response : JSON.stringify(data)
JsonFinalContent(data) ==
    IF DataResponse(data).t = "string" THEN DataResponse(data).x ELSE JsonStringify(data)

\* A final patch that leaves the status as it was while reading
ReadyChangesStillStreaming(finalContent, turnId) ==
    [content |-> finalContent, status |-> "streaming", turnId |-> turnId,
     error |-> NoText]

\* The patch of App.tsx:85-90
ReadyChanges(finalContent, turnId) ==
    [content |-> finalContent, status |-> "ready", turnId |-> turnId, error |-> NoText]

\* An error patch that keeps what was streamed so far
ErrorChangesKeepContent(err) == [status |-> "error", error |-> err]

\* The patch of App.tsx:93-97
ErrorChanges(err) == [content |-> <<>>, status |-> "error", error |-> err]

\* aggregate = text: the accumulator overwritten by the last increment
AccumulateOverwrite(aggregate, text) == text

\* aggregate += text (App.tsx:76, 79)
Accumulate(aggregate, text) == aggregate \o text

\* The patch of App.tsx:77
StreamingChanges(aggregate) == [content |-> aggregate, status |-> "streaming"]

\* Bytes received so far, all chunks joined
RECURSIVE Flatten(_)
Flatten(chunks) == IF chunks = <<>> THEN <<>> ELSE Head(chunks) \o Flatten(Tail(chunks))

-----------------------------------------------------------------------------
\* handleSaveEdit: pure parts

\* `Unable to save edit (${response.status})` (App.tsx:123)
SaveStatusError(status) == <<"Unable to save edit (", ToString(status), ")">>

\* error instanceof Error ? error.message : 'Unexpected error while saving edit.'
SaveErrorText(thrown) ==
    IF thrown.isError THEN thrown.message ELSE <<"Unexpected error while saving edit.">>

\* new Error('Missing turn ID for this message.') (App.tsx:110)
MissingTurnId == ErrorObject(<<"Missing turn ID for this message.">>)

\* The fallback of handleSend (JSON.stringify of the body) used for a save
UpdatedContentStringify(content, data) ==
    IF DataResponse(data).t = "string" THEN DataResponse(data).x ELSE JsonStringify(data)

\* updatedContent after a parsed JSON body (App.tsx:126-133)
UpdatedContent(content, data) ==
    IF DataResponse(data).t = "string" THEN DataResponse(data).x ELSE content

\* A save that blanks the reply while it is in flight
SavingClearsContent == [status |-> "saving-edit", content |-> <<>>]

\* A save that puts the reply back into streaming
SavingAsStreaming == [status |-> "streaming"]

\* The patch of App.tsx:113
SavingChanges == [status |-> "saving-edit"]

\* A success patch that also resets the turnId
SavedChangesResetTurnId(updatedContent) ==
    [content |-> updatedContent, status |-> "ready", turnId |-> Undefined,
     error |-> NoText]

\* The patch of App.tsx:139-143
SavedChanges(updatedContent) ==
    [content |-> updatedContent, status |-> "ready", error |-> NoText]

\* A failed save handled like a failed generation
SaveFailedAsError(err) == [content |-> <<>>, status |-> "error", error |-> err]

\* The patch of App.tsx:146
SaveFailedChanges(err) == [status |-> "ready", error |-> err]

-----------------------------------------------------------------------------
\* What the backend and the network may answer, and what the user may submit

Prompts == {<<"q">>}
EditContents == {<<"e", "d">>}
JsonType == <<"application/json", "; charset=utf-8">>
ContentTypes == {NullText, JsonType, <<"text/plain">>}
TurnHeaders == {Null, "", "h1"}
Response(status, contentType, header, hasBody) ==
    [status |-> status, contentType |-> contentType, header |-> header,
     hasBody |-> hasBody]
\* /generate_response: a failure status; 200 with a body of any content type and
\* any x-turn-id header; 204 with a null body
GenerateResponses ==
    {Response(500, NullText, Null, FALSE)}
    \cup {Response(200, ct, h, TRUE) : ct \in ContentTypes \ {NullText}, h \in TurnHeaders}
    \cup {Response(204, NullText, h, FALSE) : h \in TurnHeaders}
\* /save_edit: a failure status, or 200 with any content type
SaveResponses ==
    {Response(400, NullText, Null, FALSE)}
    \cup {Response(200, ct, Null, TRUE) : ct \in ContentTypes}
ThrownValues == {ErrorObject(<<"Failed to fetch">>), NonError}
ParseError == ErrorObject(<<"Unexpected token < in JSON">>)
GenerateBodies ==
    { JsonNull,
      JsonObject(JsText(<<"h", "i">>), JsStr("t1")),
      JsonObject(JsText(<<"h", "i">>), JsUndef),
      JsonObject(JsNum(5), JsNum(7)),
      JsonObject(JsUndef, JsStr("")) }
SaveBodies ==
    { JsonNull,
      JsonObject(JsText(<<"n", "e", "w">>), JsUndef),
      JsonObject(JsNum(5), JsUndef) }
TextBodies == {<<>>, <<"o", "k">>}
\* Uint8Array chunks: "H", "i", and the two bytes of U+00E9 whole and split
Chunks == {<<72>>, <<105>>, <<195, 169>>, <<195>>, <<169>>}

\* Uint8Array chunks cut anywhere: "H"; U+00E9 (C3 A9), U+20AC (E2 82 AC),
\* U+1F600 (F0 9F 98 80) and a byte order mark (EF BB BF), whole and split;
\* a byte that is never valid (FF)
ByteChunks ==
    { <<72>>,
      <<195, 169>>, <<195>>, <<169>>,
      <<226, 130, 172>>, <<226>>, <<130, 172>>, <<226, 130>>, <<172>>,
      <<240, 159, 152, 128>>, <<240, 159>>, <<152, 128>>,
      <<239, 187, 191>>, <<239>>, <<187, 191>>,
      <<255>> }
\* A 200 response that is not JSON and has a body: the streamed path
StreamedResponses == {Response(200, <<"text/plain">>, h, TRUE) : h \in {Null, "h1"}}

\* The answers drawn while calls overlap: one of each shape
OverlapResponses ==
    { Response(500, NullText, Null, FALSE),
      Response(200, JsonType, Null, TRUE),
      Response(200, <<"text/plain">>, Null, TRUE),
      Response(200, <<"text/plain">>, "h1", TRUE),
      Response(204, NullText, Null, FALSE) }
OverlapBodies == {JsonNull, JsonObject(JsText(<<"h", "i">>), JsStr("t1"))}
OverlapChunks == {<<72>>}
OverlapTexts == {<<>>}

-----------------------------------------------------------------------------
\* State

NoResponse == Response(0, NullText, Null, FALSE)

SendCall(pc, botMessageId, response, turnId, aggregate, decoder, received) ==
    [pc |-> pc, botMessageId |-> botMessageId, response |-> response,
     turnId |-> turnId, aggregate |-> aggregate, decoder |-> decoder,
     received |-> received]

\* A handleSend call that has returned: of its locals the model keeps the
\* response it was given
SendReturned(pc, botMessageId, response) ==
    SendCall(pc, botMessageId, response, Undefined, <<>>, NewDecoder, <<>>)

SaveCall(pc, messageId, content, turnId, thrown) ==
    [pc |-> pc, messageId |-> messageId, content |-> content, turnId |-> turnId,
     thrown |-> thrown]

\* A handleSaveEdit call that has returned ("done") or thrown ("rejected", with
\* the value thrown to its caller): its locals are gone
SaveReturned(pc, thrown) == SaveCall(pc, Undefined, <<>>, Undefined, thrown)

\* useState initial values of ChatHistory and MessageInput
MountedComponents ==
    [editingId |-> Null, draft |-> <<>>, savedIndicator |-> {}, localError |-> NullText,
     prompt |-> <<>>, isSubmitting |-> FALSE]

Init ==
    /\ messages = <<>>
    /\ isGenerating = FALSE
    /\ errorMessage = NullText
    /\ rendered = <<>>
    /\ sends = <<>>
    /\ saves = <<>>
    /\ requests = {}
    /\ event = [op |-> "mount", call |-> 0]
    /\ ui = MountedComponents

MessageIds == {messages[i].id : i \in 1..Len(messages)}

\* A re-render: handleSaveEdit is re-created over the current messages
\* (useCallback deps [markMessage, messages], App.tsx:150)
Render ==
    /\ rendered # Closure(messages)
    /\ rendered' = Closure(messages)
    /\ event' = [op |-> "render", call |-> 0]
    /\ UNCHANGED <<messages, isGenerating, errorMessage, sends, saves, requests>>

\* onClearError (App.tsx:162)
onClearError ==
    /\ errorMessage' = NullText
    /\ event' = [op |-> "onClearError", call |-> 0]
    /\ UNCHANGED <<messages, isGenerating, rendered, sends, saves, requests>>

-----------------------------------------------------------------------------
\* handleSend (App.tsx:21-104)

\* Lines 23-47: the pair is appended, the flags set and the request issued
handleSend(prompt) ==
    /\ LET k == Len(sends) + 1
           userMessage == NewMessage(createId("user", k), "user", prompt, "ready")
           botMessageId == createId("bot", k)
           botMessage == NewMessage(botMessageId, "bot", <<>>, "streaming")
       IN  /\ messages' = AppendPair(messages, userMessage, botMessage)
           /\ sends' = Append(sends, SendCall("fetch", botMessageId, NoResponse,
                                              Undefined, <<>>, NewDecoder, <<>>))
           /\ requests' = requests \cup
                 {[url |-> "/generate_response", call |-> k, turn_id |-> Undefined,
                   content |-> prompt]}
           /\ event' = [op |-> "handleSend", call |-> k, text |-> prompt]
    /\ isGenerating' = TRUE
    /\ errorMessage' = NullText
    /\ UNCHANGED <<rendered, saves>>

\* catch + finally (App.tsx:91-101)
SendCatch(i, thrown) ==
    LET err == SendErrorText(thrown)
    IN  /\ messages' = markMessage(messages, sends[i].botMessageId, ErrorChanges(err))
        /\ errorMessage' = err
        /\ isGenerating' = FALSE
        /\ sends' = [sends EXCEPT ![i] = SendReturned("failed", sends[i].botMessageId,
                                                       NoResponse)]
        /\ UNCHANGED <<rendered, saves, requests>>

\* Lines 85-90 + finally
SendComplete(i, finalContent, turnId) ==
    /\ messages' = markMessage(messages, sends[i].botMessageId,
                               ReadyChanges(finalContent, turnId))
    /\ isGenerating' = FALSE
    /\ sends' = [sends EXCEPT ![i] = SendReturned("done", sends[i].botMessageId,
                                                   sends[i].response)]
    /\ UNCHANGED <<errorMessage, rendered, saves, requests>>

\* Only the call's position and locals change
SendAwait(i, call) ==
    /\ sends' = [sends EXCEPT ![i] = call]
    /\ UNCHANGED <<messages, isGenerating, errorMessage, rendered, saves, requests>>

\* fetch rejects (network failure)
SendFetchRejected(i, thrown) ==
    /\ sends[i].pc = "fetch"
    /\ event' = [op |-> "fetchRejected", call |-> i, thrown |-> thrown]
    /\ SendCatch(i, thrown)

\* fetch resolves: lines 49-83 up to the next await
SendResponse(i, response) ==
    /\ sends[i].pc = "fetch"
    /\ event' = [op |-> "response", call |-> i, status |-> response.status]
    /\ IF ~ResponseOk(response.status)
       THEN SendCatch(i, ErrorObject(GenerateStatusError(response.status)))
       ELSE LET turnId == HeaderTurnId(response.header)
                next == IF IsJson(response.contentType) THEN "json"
                        ELSE IF response.hasBody THEN "read" ELSE "text"
            IN  SendAwait(i, SendCall(next, sends[i].botMessageId, response, turnId,
                                      <<>>, NewDecoder, <<>>))

\* await response.json() resolves (lines 58-66, 85-90)
SendJson(i, data) ==
    /\ sends[i].pc = "json"
    /\ event' = [op |-> "json", call |-> i, data |-> data]
    /\ SendComplete(i, JsonFinalContent(data), BodyTurnId(sends[i].turnId, data))

\* await response.json() rejects
SendJsonRejected(i, thrown) ==
    /\ sends[i].pc = "json"
    /\ event' = [op |-> "jsonRejected", call |-> i, thrown |-> thrown]
    /\ SendCatch(i, thrown)

\* await reader.read() resolves with a chunk (lines 72-77)
SendChunk(i, value) ==
    /\ sends[i].pc = "read"
    /\ LET r == DecodeStream(sends[i].decoder, value)
           aggregate == Accumulate(sends[i].aggregate, r.text)
       IN  /\ messages' = markMessage(messages, sends[i].botMessageId,
                                      StreamingChanges(aggregate))
           /\ sends' = [sends EXCEPT ![i].aggregate = aggregate, ![i].decoder = r.d,
                                     ![i].received = Append(@, value)]
    /\ event' = [op |-> "chunk", call |-> i, value |-> value]
    /\ UNCHANGED <<isGenerating, errorMessage, rendered, saves, requests>>

\* await reader.read() resolves with done (lines 73-80, 85-90)
SendStreamEnd(i) ==
    /\ sends[i].pc = "read"
    /\ event' = [op |-> "streamEnd", call |-> i]
    /\ SendComplete(i, Accumulate(sends[i].aggregate, DecodeFlush(sends[i].decoder).text),
                    sends[i].turnId)

\* await reader.read() rejects
SendStreamRejected(i, thrown) ==
    /\ sends[i].pc = "read"
    /\ event' = [op |-> "readRejected", call |-> i, thrown |-> thrown]
    /\ SendCatch(i, thrown)

\* await response.text() resolves (line 82)
SendText(i, text) ==
    /\ sends[i].pc = "text"
    /\ event' = [op |-> "text", call |-> i, text |-> text]
    /\ SendComplete(i, text, sends[i].turnId)

\* await response.text() rejects
SendTextRejected(i, thrown) ==
    /\ sends[i].pc = "text"
    /\ event' = [op |-> "textRejected", call |-> i, thrown |-> thrown]
    /\ SendCatch(i, thrown)

-----------------------------------------------------------------------------
\* handleSaveEdit (App.tsx:106-151)

\* Lines 108-111: the closed-over messages hold no turnId for messageId
SaveMissingTurnId(messageId, content) ==
    /\ ~TruthyStr(FindTurnId(rendered, messageId))
    /\ saves' = Append(saves, SaveReturned("rejected", MissingTurnId))
    /\ event' = [op |-> "handleSaveEdit", call |-> Len(saves) + 1, id |-> messageId,
                 text |-> content]
    /\ UNCHANGED <<messages, isGenerating, errorMessage, rendered, sends, requests>>

\* Lines 108-120: the message is marked saving-edit and the request issued
SaveStart(messageId, content) ==
    /\ TruthyStr(FindTurnId(rendered, messageId))
    /\ LET turnId == FindTurnId(rendered, messageId)
           j == Len(saves) + 1
       IN  /\ messages' = markMessage(messages, messageId, SavingChanges)
           /\ saves' = Append(saves, SaveCall("fetch", messageId, content, turnId, NoThrow))
           /\ requests' = requests \cup
                 {[url |-> "/save_edit", call |-> j, turn_id |-> turnId,
                   content |-> content]}
           /\ event' = [op |-> "handleSaveEdit", call |-> j, id |-> messageId,
                        text |-> content]
    /\ UNCHANGED <<isGenerating, errorMessage, rendered, sends>>

\* catch (App.tsx:144-148): annotate the message, re-throw
SaveCatch(j, thrown) ==
    /\ messages' = markMessage(messages, saves[j].messageId,
                               SaveFailedChanges(SaveErrorText(thrown)))
    /\ saves' = [saves EXCEPT ![j] = SaveReturned("rejected", thrown)]
    /\ UNCHANGED <<isGenerating, errorMessage, rendered, sends, requests>>

\* A successful save that also dismisses the page-level error
SaveCompleteClearsPageError(j, updatedContent) ==
    /\ messages' = markMessage(messages, saves[j].messageId, SavedChanges(updatedContent))
    /\ saves' = [saves EXCEPT ![j] = SaveReturned("done", NoThrow)]
    /\ errorMessage' = NullText
    /\ UNCHANGED <<isGenerating, rendered, sends, requests>>

\* Lines 139-143
SaveComplete(j, updatedContent) ==
    /\ messages' = markMessage(messages, saves[j].messageId, SavedChanges(updatedContent))
    /\ saves' = [saves EXCEPT ![j] = SaveReturned("done", NoThrow)]
    /\ UNCHANGED <<isGenerating, errorMessage, rendered, sends, requests>>

\* fetch rejects
SaveFetchRejected(j, thrown) ==
    /\ saves[j].pc = "fetch"
    /\ event' = [op |-> "saveFetchRejected", call |-> j, thrown |-> thrown]
    /\ SaveCatch(j, thrown)

\* fetch resolves: lines 122-137 up to the next await
SaveResponse(j, response) ==
    /\ saves[j].pc = "fetch"
    /\ event' = [op |-> "saveResponse", call |-> j, status |-> response.status,
                 contentType |-> response.contentType]
    /\ IF ~ResponseOk(response.status)
       THEN SaveCatch(j, ErrorObject(SaveStatusError(response.status)))
       ELSE IF IsJson(response.contentType)
            THEN /\ saves' = [saves EXCEPT ![j].pc = "json"]
                 /\ UNCHANGED <<messages, isGenerating, errorMessage, rendered, sends,
                                requests>>
            ELSE SaveComplete(j, saves[j].content)

\* await response.json() resolves (lines 130-133, 139-143)
SaveJson(j, data) ==
    /\ saves[j].pc = "json"
    /\ event' = [op |-> "saveJson", call |-> j, data |-> data]
    /\ SaveComplete(j, UpdatedContent(saves[j].content, data))

\* await response.json() rejects: caught and logged (lines 134-136)
SaveJsonRejected(j, thrown) ==
    /\ saves[j].pc = "json"
    /\ event' = [op |-> "saveJsonRejected", call |-> j, thrown |-> thrown]
    /\ SaveComplete(j, saves[j].content)

-----------------------------------------------------------------------------
\* The App under any caller: handleSend and handleSaveEdit calls overlap freely,
\* every await is answered in any order

\* Ids a caller may pass: those of the log and one that is in no log
CallableIds == MessageIds \cup {"bot-0"}

Next ==
    \/ Render /\ UNCHANGED ui
    \/ onClearError /\ UNCHANGED ui
    \/ Len(sends) < MaxSends /\ \E prompt \in Prompts : handleSend(prompt) /\ UNCHANGED ui
    \/ \E i \in 1..Len(sends), thrown \in ThrownValues : SendFetchRejected(i, thrown)
          /\ UNCHANGED ui
    \/ \E i \in 1..Len(sends), response \in OverlapResponses : SendResponse(i, response)
          /\ UNCHANGED ui
    \/ \E i \in 1..Len(sends), data \in OverlapBodies : SendJson(i, data) /\ UNCHANGED ui
    \/ \E i \in 1..Len(sends) : SendJsonRejected(i, ParseError) /\ UNCHANGED ui
    \/ \E i \in 1..Len(sends), value \in OverlapChunks :
          Len(sends[i].received) < MaxChunks /\ SendChunk(i, value) /\ UNCHANGED ui
    \/ \E i \in 1..Len(sends) : SendStreamEnd(i) /\ UNCHANGED ui
    \/ \E i \in 1..Len(sends), thrown \in ThrownValues : SendStreamRejected(i, thrown)
          /\ UNCHANGED ui
    \/ \E i \in 1..Len(sends), text \in OverlapTexts : SendText(i, text) /\ UNCHANGED ui
    \/ \E i \in 1..Len(sends), thrown \in ThrownValues : SendTextRejected(i, thrown)
          /\ UNCHANGED ui
    \/ \E messageId \in CallableIds, content \in EditContents :
          Len(saves) < MaxSaves /\ SaveMissingTurnId(messageId, content) /\ UNCHANGED ui
    \/ \E messageId \in CallableIds, content \in EditContents :
          Len(saves) < MaxSaves /\ SaveStart(messageId, content) /\ UNCHANGED ui
    \/ \E j \in 1..Len(saves), thrown \in ThrownValues : SaveFetchRejected(j, thrown)
          /\ UNCHANGED ui
    \/ \E j \in 1..Len(saves), response \in SaveResponses : SaveResponse(j, response)
          /\ UNCHANGED ui
    \/ \E j \in 1..Len(saves), data \in SaveBodies : SaveJson(j, data) /\ UNCHANGED ui
    \/ \E j \in 1..Len(saves) : SaveJsonRejected(j, ParseError) /\ UNCHANGED ui

Spec == Init /\ [][Next]_vars

-----------------------------------------------------------------------------
\* The App when the network answers: every request and every body read a call
\* awaits is eventually settled, and a body is a finite stream

\* The answers drawn: one failure and one success of each request and each read
SettledThrown == {ErrorObject(<<"Failed to fetch">>)}
SettledResponses ==
    { Response(500, NullText, Null, FALSE),
      Response(200, JsonType, Null, TRUE),
      Response(200, <<"text/plain">>, "h1", TRUE),
      Response(204, NullText, Null, FALSE) }
SettledBodies == {JsonObject(JsText(<<"h", "i">>), JsStr("t1"))}
SettledSaveResponses ==
    { Response(400, NullText, Null, FALSE),
      Response(200, JsonType, Null, TRUE) }
SettledSaveBodies == {JsonNull}

\* The promise handleSend call i awaits settles (App.tsx:43, 58, 72, 82)
SendSettles(i) ==
    /\ UNCHANGED ui
    /\ i <= Len(sends)
    /\ \/ \E thrown \in SettledThrown : SendFetchRejected(i, thrown)
       \/ \E response \in SettledResponses : SendResponse(i, response)
       \/ \E data \in SettledBodies : SendJson(i, data)
       \/ SendJsonRejected(i, ParseError)
       \/ \E value \in OverlapChunks :
             Len(sends[i].received) < MaxChunks /\ SendChunk(i, value)
       \/ SendStreamEnd(i)
       \/ \E thrown \in SettledThrown : SendStreamRejected(i, thrown)
       \/ \E text \in OverlapTexts : SendText(i, text)
       \/ \E thrown \in SettledThrown : SendTextRejected(i, thrown)

\* The promise handleSaveEdit call j awaits settles (App.tsx:116, 130)
SaveSettles(j) ==
    /\ UNCHANGED ui
    /\ j <= Len(saves)
    /\ \/ \E thrown \in SettledThrown : SaveFetchRejected(j, thrown)
       \/ \E response \in SettledSaveResponses : SaveResponse(j, response)
       \/ \E data \in SettledSaveBodies : SaveJson(j, data)
       \/ SaveJsonRejected(j, ParseError)

NextResponsive ==
    \/ Render /\ UNCHANGED ui
    \/ Len(sends) < MaxSends /\ \E prompt \in Prompts : handleSend(prompt) /\ UNCHANGED ui
    \/ \E i \in 1..Len(sends) : SendSettles(i) /\ UNCHANGED ui
    \/ \E messageId \in MessageIds, content \in EditContents :
          Len(saves) < MaxSaves /\ SaveStart(messageId, content) /\ UNCHANGED ui
    \/ \E j \in 1..Len(saves) : SaveSettles(j) /\ UNCHANGED ui

Responsive ==
    /\ \A i \in 1..MaxSends : WF_vars(SendSettles(i))
    /\ \A j \in 1..MaxSaves : WF_vars(SaveSettles(j))

SpecResponsive == Init /\ [][NextResponsive]_vars /\ Responsive

-----------------------------------------------------------------------------
\* One ingestion against any backend, and saves of its reply

NextIngest ==
    \/ Render /\ UNCHANGED ui
    \/ onClearError /\ UNCHANGED ui
    \/ sends = <<>> /\ \E prompt \in Prompts : handleSend(prompt) /\ UNCHANGED ui
    \/ \E i \in 1..Len(sends), thrown \in ThrownValues : SendFetchRejected(i, thrown)
          /\ UNCHANGED ui
    \/ \E i \in 1..Len(sends), response \in GenerateResponses : SendResponse(i, response)
          /\ UNCHANGED ui
    \/ \E i \in 1..Len(sends), data \in GenerateBodies : SendJson(i, data) /\ UNCHANGED ui
    \/ \E i \in 1..Len(sends) : SendJsonRejected(i, ParseError) /\ UNCHANGED ui
    \/ \E i \in 1..Len(sends), value \in Chunks :
          Len(sends[i].received) < MaxChunks /\ SendChunk(i, value) /\ UNCHANGED ui
    \/ \E i \in 1..Len(sends) : SendStreamEnd(i) /\ UNCHANGED ui
    \/ \E i \in 1..Len(sends), thrown \in ThrownValues : SendStreamRejected(i, thrown)
          /\ UNCHANGED ui
    \/ \E i \in 1..Len(sends), text \in TextBodies : SendText(i, text) /\ UNCHANGED ui
    \/ \E i \in 1..Len(sends), thrown \in ThrownValues : SendTextRejected(i, thrown)
          /\ UNCHANGED ui
    \/ \E messageId \in CallableIds, content \in EditContents :
          Len(saves) < MaxSaves /\ SaveMissingTurnId(messageId, content) /\ UNCHANGED ui
    \/ \E messageId \in CallableIds, content \in EditContents :
          Len(saves) < MaxSaves /\ SaveStart(messageId, content) /\ UNCHANGED ui
    \/ \E j \in 1..Len(saves), thrown \in ThrownValues : SaveFetchRejected(j, thrown)
          /\ UNCHANGED ui
    \/ \E j \in 1..Len(saves), response \in SaveResponses : SaveResponse(j, response)
          /\ UNCHANGED ui
    \/ \E j \in 1..Len(saves), data \in SaveBodies : SaveJson(j, data) /\ UNCHANGED ui
    \/ \E j \in 1..Len(saves) : SaveJsonRejected(j, ParseError) /\ UNCHANGED ui

SpecIngest == Init /\ [][NextIngest]_vars

-----------------------------------------------------------------------------
\* One streamed ingestion: the body arrives in chunks cut at any byte

NextDecode ==
    \/ sends = <<>> /\ \E prompt \in Prompts : handleSend(prompt) /\ UNCHANGED ui
    \/ \E i \in 1..Len(sends), response \in StreamedResponses : SendResponse(i, response)
          /\ UNCHANGED ui
    \/ \E i \in 1..Len(sends), value \in ByteChunks :
          Len(sends[i].received) < MaxChunks /\ SendChunk(i, value) /\ UNCHANGED ui
    \/ \E i \in 1..Len(sends) : SendStreamEnd(i) /\ UNCHANGED ui

SpecDecode == Init /\ [][NextDecode]_vars

-----------------------------------------------------------------------------
\* The Message Store alone: any sequence of appends and patches

\* Patches of every shape the handlers apply, and single-field ones
Patches ==
    { SavingChanges,
      StreamingChanges(<<"H">>),
      ReadyChanges(<<"h", "i">>, "t1"),
      ReadyChanges(<<>>, Undefined),
      ErrorChanges(<<"Failed to fetch">>),
      SavedChanges(<<"e", "d">>),
      SaveFailedChanges(<<"Unable to save edit (", "400", ")">>),
      [turnId |-> "t2"],
      [content |-> <<"x">>] }

\* setMessages(prev => [...prev, userMessage, botMessage]) (App.tsx:23-38)
StoreAppend(prompt) ==
    LET k == Len(messages) \div 2 + 1
    IN  /\ event.call < MaxStoreOps
        /\ UNCHANGED <<isGenerating, errorMessage, rendered, sends, saves, requests>>
        /\ messages' = AppendPair(messages,
                                  NewMessage(createId("user", k), "user", prompt, "ready"),
                                  NewMessage(createId("bot", k), "bot", <<>>, "streaming"))
        /\ event' = [op |-> "append", call |-> event.call + 1, id |-> createId("user", k),
                     changes |-> [content |-> prompt]]

\* markMessage(id, changes) (App.tsx:14-19)
StorePatch(id, changes) ==
    /\ event.call < MaxStoreOps
    /\ UNCHANGED <<isGenerating, errorMessage, rendered, sends, saves, requests>>
    /\ messages' = markMessage(messages, id, changes)
    /\ event' = [op |-> "markMessage", call |-> event.call + 1, id |-> id,
                 changes |-> changes]

NextStore ==
    \/ \E prompt \in Prompts : StoreAppend(prompt) /\ UNCHANGED ui
    \/ \E id \in CallableIds, changes \in Patches : StorePatch(id, changes)
          /\ UNCHANGED ui

SpecStore == Init /\ [][NextStore]_vars

-----------------------------------------------------------------------------
\* The page as the user drives it: MessageInput (components/MessageInput.tsx)
\* calls handleSend, ChatHistory (components/ChatHistory.tsx) calls
\* handleSaveEdit. A user event reaches the elements of the latest render; the
\* code after `await onSend(...)` / `await onSaveEdit(...)` runs in the step
\* that settles the awaited call.

\* String.prototype.trim, white space being the atom " "
RECURSIVE TrimStart(_)
TrimStart(text) ==
    IF text # <<>> /\ Head(text) = " " THEN TrimStart(Tail(text)) ELSE text
RECURSIVE TrimEnd(_)
TrimEnd(text) ==
    IF text # <<>> /\ text[Len(text)] = " "
    THEN TrimEnd(SubSeq(text, 1, Len(text) - 1)) ELSE text
Trim(text) == TrimEnd(TrimStart(text))

\* What the user types into the prompt and into the edit box
TypedPrompts == {<<" ">>, <<"q", " ">>}
TypedDrafts == {<<" ">>, <<"e", "d", " ">>}

\* The answers drawn while the user drives the page
PageThrown == {ErrorObject(<<"Failed to fetch">>)}
PageResponses == {Response(500, NullText, Null, FALSE), Response(200, JsonType, Null, TRUE)}
PageBodies == {JsonObject(JsText(<<"h", "i">>), JsStr("t1"))}
PageSaveResponses ==
    { Response(400, NullText, Null, FALSE),
      Response(200, <<"text/plain">>, Null, TRUE),
      Response(200, JsonType, Null, TRUE) }
PageSaveBodies == {JsonObject(JsText(<<"n", "e", "w">>), JsUndef)}

\* The elements on the page are those of the current state
Committed == rendered = Closure(messages)

\* The Edit / Cancel / Save buttons exist for a bot message with a turnId
\* (ChatHistory.tsx:64)
HasActions(id) ==
    /\ \E n \in 1..Len(messages) : messages[n].id = id
    /\ messages[CHOOSE n \in 1..Len(messages) : messages[n].id = id].role = "bot"
    /\ TruthyStr(FindTurnId(messages, id))

StatusOf(id) == messages[CHOOSE n \in 1..Len(messages) : messages[n].id = id].status
ContentOf(id) == messages[CHOOSE n \in 1..Len(messages) : messages[n].id = id].content

\* The prompt textarea and the Send button are disabled (MessageInput.tsx:39, 44)
InputDisabled == isGenerating \/ ui.isSubmitting

\* onChange of the prompt textarea (MessageInput.tsx:38)
setPrompt(text) ==
    /\ Committed /\ ~InputDisabled
    /\ ui' = [ui EXCEPT !.prompt = text]
    /\ event' = [op |-> "setPrompt", call |-> 0]
    /\ UNCHANGED <<messages, isGenerating, errorMessage, rendered, sends, saves, requests>>

\* MessageInput.handleSubmit up to its await (MessageInput.tsx:15-24)
handleSubmit ==
    /\ Committed /\ ~InputDisabled
    /\ IF Trim(ui.prompt) = <<>> \/ ui.isSubmitting
       THEN /\ event' = [op |-> "handleSubmit", call |-> 0]
            /\ UNCHANGED <<messages, isGenerating, errorMessage, rendered, sends, saves,
                           requests, ui>>
       ELSE /\ handleSend(Trim(ui.prompt))
            /\ ui' = [ui EXCEPT !.isSubmitting = TRUE]

\* MessageInput.handleSubmit after `await onSend(...)` (MessageInput.tsx:25-28),
\* when this step makes handleSend call i return
SubmitReturns(i) ==
    IF sends'[i].pc \in {"done", "failed"}
    THEN [ui EXCEPT !.prompt = <<>>, !.isSubmitting = FALSE]
    ELSE ui

\* ChatHistory.startEditing (ChatHistory.tsx:17-22), from the Edit button
\* (lines 86-93)
startEditing(id) ==
    /\ Committed /\ HasActions(id) /\ ui.editingId # id /\ ~isGenerating
    /\ ui' = [ui EXCEPT !.editingId = id, !.draft = ContentOf(id),
                        !.localError = NullText, !.savedIndicator = @ \ {id}]
    /\ event' = [op |-> "startEditing", call |-> 0, id |-> id]
    /\ UNCHANGED <<messages, isGenerating, errorMessage, rendered, sends, saves, requests>>

\* ChatHistory.cancelEditing (ChatHistory.tsx:24-28), from the Cancel button
\* (lines 67-74)
cancelEditing ==
    /\ Committed /\ HasActions(ui.editingId) /\ StatusOf(ui.editingId) # "saving-edit"
    /\ ui' = [ui EXCEPT !.editingId = Null, !.draft = <<>>, !.localError = NullText]
    /\ event' = [op |-> "cancelEditing", call |-> 0]
    /\ UNCHANGED <<messages, isGenerating, errorMessage, rendered, sends, saves, requests>>

\* onChange of the edit box (ChatHistory.tsx:104-109)
setDraft(text) ==
    /\ Committed /\ HasActions(ui.editingId)
    /\ ui' = [ui EXCEPT !.draft = text]
    /\ event' = [op |-> "setDraft", call |-> 0]
    /\ UNCHANGED <<messages, isGenerating, errorMessage, rendered, sends, saves, requests>>

\* error instanceof Error ? error.message : 'Unable to save edit.'
\* (ChatHistory.tsx:43)
LocalErrorText(thrown) ==
    IF thrown.isError THEN thrown.message ELSE <<"Unable to save edit.">>

\* ChatHistory.handleSave up to its await (ChatHistory.tsx:30-38), from the Save
\* button (lines 75-82)
handleSave(id) ==
    /\ Committed /\ HasActions(id) /\ ui.editingId = id /\ StatusOf(id) # "saving-edit"
    /\ IF Trim(ui.draft) = <<>>
       THEN /\ ui' = [ui EXCEPT !.localError = <<"Response cannot be empty.">>]
            /\ event' = [op |-> "handleSave", call |-> 0, id |-> id]
            /\ UNCHANGED <<messages, isGenerating, errorMessage, rendered, sends, saves,
                           requests>>
       ELSE \/ /\ SaveStart(id, Trim(ui.draft))
               /\ ui' = [ui EXCEPT !.localError = NullText]
            \/ /\ SaveMissingTurnId(id, Trim(ui.draft))
               /\ ui' = [ui EXCEPT !.localError = LocalErrorText(MissingTurnId)]

\* ChatHistory.handleSave after `await onSaveEdit(...)` (ChatHistory.tsx:39-45),
\* when this step makes handleSaveEdit call j return or throw
SaveReturns(j) ==
    IF saves'[j].pc = "done"
    THEN [ui EXCEPT !.editingId = Null, !.draft = <<>>,
                    !.savedIndicator = @ \cup {saves[j].messageId}]
    ELSE IF saves'[j].pc = "rejected"
    THEN [ui EXCEPT !.localError = LocalErrorText(saves'[j].thrown)]
    ELSE ui

NextPage ==
    \/ Render /\ UNCHANGED ui
    \/ \E text \in TypedPrompts : setPrompt(text)
    \/ Len(sends) < MaxSends /\ handleSubmit
    \/ \E i \in 1..Len(sends), thrown \in PageThrown :
          SendFetchRejected(i, thrown) /\ ui' = SubmitReturns(i)
    \/ \E i \in 1..Len(sends), response \in PageResponses :
          SendResponse(i, response) /\ ui' = SubmitReturns(i)
    \/ \E i \in 1..Len(sends), data \in PageBodies :
          SendJson(i, data) /\ ui' = SubmitReturns(i)
    \/ \E id \in MessageIds : startEditing(id)
    \/ cancelEditing
    \/ \E text \in TypedDrafts : setDraft(text)
    \/ \E id \in MessageIds : Len(saves) < MaxSaves /\ handleSave(id)
    \/ \E j \in 1..Len(saves), thrown \in PageThrown :
          SaveFetchRejected(j, thrown) /\ ui' = SaveReturns(j)
    \/ \E j \in 1..Len(saves), response \in PageSaveResponses :
          SaveResponse(j, response) /\ ui' = SaveReturns(j)
    \/ \E j \in 1..Len(saves), data \in PageSaveBodies :
          SaveJson(j, data) /\ ui' = SaveReturns(j)

SpecPage == Init /\ [][NextPage]_vars

-----------------------------------------------------------------------------
\* Reading the log

Fields == {"id", "role", "content", "status", "turnId", "error"}

IndexOf(msgs, id) == CHOOSE i \in 1..Len(msgs) : msgs[i].id = id

HasId(msgs, id) == \E i \in 1..Len(msgs) : msgs[i].id = id

\* The message with this id in the current log, and in the log after the step
Msg(id) == messages[IndexOf(messages, id)]
MsgAfter(id) == messages'[IndexOf(messages', id)]

Contains(text, atom) == \E k \in 1..Len(text) : text[k] = atom

IsPrefix(a, b) == Len(a) <= Len(b) /\ \A k \in 1..Len(a) : a[k] = b[k]

\* The calls whose request or body read is still awaited
SendInFlight(call) == call.pc \in {"fetch", "json", "read", "text"}
SaveInFlight(call) == call.pc \in {"fetch", "json"}

UniqueIds(msgs) == \A i, j \in 1..Len(msgs) : msgs[i].id = msgs[j].id => i = j

-----------------------------------------------------------------------------
\* C8: a patch changes only the fields it names, on the one message whose id
\* matches; every other message and every unnamed field of the target keeps
\* its value, and a patch whose id matches no message leaves the log unchanged.
C8_PatchFrame ==
    [][event'.op = "markMessage" =>
         /\ Len(messages') = Len(messages)
         /\ UniqueIds(messages)
         /\ \A i \in 1..Len(messages) :
              IF messages[i].id = event'.id
              THEN \A f \in Fields :
                     messages'[i][f] = IF f \in DOMAIN event'.changes
                                       THEN event'.changes[f]
                                       ELSE messages[i][f]
              ELSE messages'[i] = messages[i]
         /\ (~HasId(messages, event'.id) => messages' = messages)]_vars

\* A patch has been applied to the first reply of a log holding two pairs, after
\* earlier patches gave it a turnId
C8_Witness ==
    /\ event.op = "markMessage"
    /\ Len(messages) = 4
    /\ event.id = "bot-1"
    /\ messages[2].status = "saving-edit"
    /\ messages[2].turnId = "t1"
    /\ messages[4].status = "streaming"

-----------------------------------------------------------------------------
\* The text a failed handleSend surfaces, from the input of the failing step
C1_FailureText ==
    IF event'.op = "response"
    THEN <<"Unable to generate response (", ToString(event'.status), ")">>
    ELSE IF event'.thrown.isError THEN event'.thrown.message
    ELSE <<"Unexpected error">>

\* C1: when a handleSend request fails (non-2xx status, rejected fetch, or a
\* rejected body read, also after chunks were written), the step that handles
\* the failure leaves the call's bot message with status error, empty content
\* and error = the failure text, sets errorMessage to the same text, and the
\* message keeps that state ever after. The text is the thrown Error's message
\* (holding the status code for a non-2xx response), else 'Unexpected error'.
C1_SendFailure ==
    [][\A i \in 1..Len(sends) :
         /\ (SendInFlight(sends[i]) /\ sends'[i].pc = "failed") =>
               /\ MsgAfter(sends[i].botMessageId).status = "error"
               /\ MsgAfter(sends[i].botMessageId).content = <<>>
               /\ MsgAfter(sends[i].botMessageId).error = C1_FailureText
               /\ errorMessage' = C1_FailureText
               /\ (event'.op = "response" =>
                      /\ ~(event'.status \in 200..299)
                      /\ Contains(errorMessage', ToString(event'.status)))
         /\ sends[i].pc = "failed" =>
               /\ MsgAfter(sends[i].botMessageId) = Msg(sends[i].botMessageId)
               /\ Msg(sends[i].botMessageId).status = "error"
               /\ Msg(sends[i].botMessageId).content = <<>>]_vars

\* A body read has been rejected and its message is in error with the page-level
\* error set, while another call's stream has written a chunk
C1_Witness ==
    /\ event.op = "readRejected"
    /\ sends[event.call].pc = "failed"
    /\ Msg(sends[event.call].botMessageId).status = "error"
    /\ Msg(sends[event.call].botMessageId).content = <<>>
    /\ errorMessage = <<"Failed to fetch">>
    /\ \E k \in 1..Len(sends) : sends[k].pc = "read" /\ sends[k].received # <<>>

-----------------------------------------------------------------------------
\* The value a failing handleSaveEdit throws, from the input of the failing step
C2_Thrown ==
    IF event'.op = "saveResponse"
    THEN [isError |-> TRUE,
          message |-> <<"Unable to save edit (", ToString(event'.status), ")">>]
    ELSE event'.thrown

\* C2: when a handleSaveEdit request fails (non-2xx status or rejected fetch),
\* the step that handles it leaves the target's content (and id, role, turnId)
\* as it was, sets its status to ready and its error to the failure text
\* (holding the status code for a non-2xx response), re-throws the failure to
\* the caller, and changes neither errorMessage nor isGenerating.
C2_SaveFailure ==
    [][\A j \in 1..Len(saves) :
         (saves[j].pc = "fetch" /\ saves'[j].pc = "rejected") =>
            LET before == Msg(saves[j].messageId)
                after == MsgAfter(saves[j].messageId)
            IN  /\ before.turnId \notin {Undefined, ""} /\ before.role = "bot"
                /\ after.content = before.content
                /\ after.turnId = before.turnId
                /\ after.id = before.id /\ after.role = before.role
                /\ after.status = "ready"
                /\ after.error = IF C2_Thrown.isError THEN C2_Thrown.message
                                 ELSE <<"Unexpected error while saving edit.">>
                /\ (event'.op = "saveResponse" =>
                       /\ ~(event'.status \in 200..299)
                       /\ Contains(after.error, ToString(event'.status)))
                /\ saves'[j].thrown = C2_Thrown
                /\ errorMessage' = errorMessage
                /\ isGenerating' = isGenerating]_vars

\* A save was answered 400: the reply is ready again with its content and the
\* failure text, and the call has thrown to its caller
C2_Witness ==
    /\ event.op = "saveResponse"
    /\ event.status = 400
    /\ saves[event.call].pc = "rejected"
    /\ saves[event.call].thrown.message = <<"Unable to save edit (", "400", ")">>
    /\ \E i \in 1..Len(messages) :
          /\ messages[i].status = "ready"
          /\ messages[i].content = <<"h", "i">>
          /\ messages[i].error = <<"Unable to save edit (", "400", ")">>

-----------------------------------------------------------------------------
\* C3: a handleSaveEdit call whose id is in no message of the log, or whose
\* message has no turnId, throws the missing-turn-id error at once, issues no
\* request and leaves the log unchanged; a message without a turnId is never
\* in status saving-edit.
C3_MissingTurnId ==
    /\ [](\A i \in 1..Len(messages) :
            messages[i].status = "saving-edit" => messages[i].turnId \notin {Undefined, ""})
    /\ [][(/\ event'.op = "handleSaveEdit"
           /\ Len(saves') = Len(saves) + 1
           /\ \/ ~HasId(messages, event'.id)
              \/ Msg(event'.id).turnId \in {Undefined, ""}) =>
              /\ saves'[event'.call].pc = "rejected"
              /\ saves'[event'.call].thrown =
                    [isError |-> TRUE, message |-> <<"Missing turn ID for this message.">>]
              /\ requests' = requests
              /\ messages' = messages]_vars

\* A save of a ready reply that carries no turnId has just thrown
C3_Witness ==
    /\ event.op = "handleSaveEdit"
    /\ event.id = "bot-1"
    /\ Msg("bot-1").status = "ready"
    /\ Msg("bot-1").turnId = ""
    /\ saves[event.call].pc = "rejected"
    /\ \A r \in requests : r.url # "/save_edit"

-----------------------------------------------------------------------------
\* C4: the step that completes a successful handleSaveEdit leaves the target
\* with status ready, no error, its turnId unchanged, and content equal to the
\* body's `response` when the body is JSON with a string `response`, else
\* (non-JSON body, JSON without a string `response`, JSON that fails to parse)
\* equal to the submitted content.
C4_SaveSuccess ==
    [][\A j \in 1..Len(saves) :
         (SaveInFlight(saves[j]) /\ saves'[j].pc = "done") =>
            LET before == Msg(saves[j].messageId)
                after == MsgAfter(saves[j].messageId)
            IN  /\ after.status = "ready"
                /\ after.error = NoText
                /\ after.turnId = before.turnId
                /\ after.id = before.id /\ after.role = before.role
                /\ event'.op \in {"saveResponse", "saveJson", "saveJsonRejected"}
                /\ (event'.op = "saveResponse" =>
                       event'.status \in 200..299 /\ ~IsJson(event'.contentType))
                /\ after.content =
                      IF /\ event'.op = "saveJson"
                         /\ event'.data.kind = "object"
                         /\ event'.data.response.t = "string"
                      THEN event'.data.response.x
                      ELSE saves[j].content]_vars

\* A save was answered with JSON whose `response` is no string: the reply holds
\* the submitted text
C4_Witness ==
    /\ event.op = "saveJson"
    /\ event.data.response.t = "number"
    /\ saves[event.call].pc = "done"
    /\ \E i \in 1..Len(messages) :
          /\ messages[i].status = "ready"
          /\ messages[i].content = <<"e", "d">>
          /\ messages[i].turnId = "t1"
          /\ messages[i].error = NoText

-----------------------------------------------------------------------------
\* The bot message as handleSend appends it, and the example body
C5_InitialBot(id) ==
    [id |-> id, role |-> "bot", content |-> <<>>, status |-> "streaming",
     turnId |-> Undefined, error |-> NoText]

C5_Example == JsonObject(JsText(<<"h", "i">>), JsStr("t1"))

\* C5: a successful JSON generation response takes the bot message in one step
\* from its initial state (streaming, empty content) to status ready, no error,
\* and content = the body's `response` when that is a string, else the whole
\* body serialized; body {response: "hi", turn_id: "t1"} with no header gives
\* {status: ready, content: "hi", turnId: "t1", error: undefined}.
C5_JsonSuccess ==
    /\ [](\A i \in 1..Len(sends) :
            sends[i].pc \in {"fetch", "json", "text"} =>
               Msg(sends[i].botMessageId) = C5_InitialBot(sends[i].botMessageId))
    /\ [][\A i \in 1..Len(sends) :
            (sends[i].pc = "json" /\ sends'[i].pc = "done") =>
               LET after == MsgAfter(sends[i].botMessageId)
                   data == event'.data
               IN  /\ event'.op = "json"
                   /\ after.status = "ready"
                   /\ after.error = NoText
                   /\ after.id = sends[i].botMessageId /\ after.role = "bot"
                   /\ after.content =
                         IF data.kind = "object" /\ data.response.t = "string"
                         THEN data.response.x
                         ELSE JsonStringify(data)
                   /\ (data = JsonObject(JsNum(5), JsNum(7)) =>
                          after.content =
                             <<"{", "\"response\":", "5", ",", "\"turn_id\":", "7", "}">>)
                   /\ (data = JsonNull => after.content = <<"null">>)
                   /\ (data = C5_Example /\ sends[i].response.header = Null =>
                          after = [id |-> sends[i].botMessageId, role |-> "bot",
                                   content |-> <<"h", "i">>, status |-> "ready",
                                   turnId |-> "t1", error |-> NoText])]_vars

\* The body {response: "hi", turn_id: "t1"} has arrived without a header
C5_Witness ==
    /\ event.op = "json"
    /\ event.data = C5_Example
    /\ sends[1].pc = "done"
    /\ Msg("bot-1") = [id |-> "bot-1", role |-> "bot", content |-> <<"h", "i">>,
                       status |-> "ready", turnId |-> "t1", error |-> NoText]

-----------------------------------------------------------------------------
\* The turn id a JSON body supplies: its truthy turn_id as a string
C6_BodyId(data) ==
    IF data.kind = "object" /\ data.turn_id.t = "string" /\ data.turn_id.s # ""
    THEN data.turn_id.s
    ELSE IF data.kind = "object" /\ data.turn_id.t = "number" /\ data.turn_id.n # 0
    THEN ToString(data.turn_id.n)
    ELSE Undefined

\* C6 as stated: on success the turnId is the header's value whenever the
\* header is present, the body's turn_id only when the header is absent, and
\* undefined for a streamed or plain-text response without the header.
C6_HeaderWhenPresent ==
    [][\A i \in 1..Len(sends) :
         (SendInFlight(sends[i]) /\ sends'[i].pc = "done") =>
            LET header == sends[i].response.header
                turnId == MsgAfter(sends[i].botMessageId).turnId
            IN  /\ header # Null => turnId = header
                /\ (header = Null /\ event'.op = "json") => turnId = C6_BodyId(event'.data)
                /\ (header = Null /\ event'.op # "json") => turnId = Undefined]_vars

\* C6 as amended: on success the turnId is the header's value whenever the
\* header is present and not empty; with the header absent or empty, a JSON
\* body's truthy turn_id is used (as a string); otherwise the turnId is what
\* the header gave (undefined when absent, "" when empty). A reply whose turnId
\* is undefined or empty is never saved: every save of it throws at once.
C6_TurnIdSource ==
    [][/\ \A i \in 1..Len(sends) :
            (SendInFlight(sends[i]) /\ sends'[i].pc = "done") =>
               LET header == sends[i].response.header
                   turnId == MsgAfter(sends[i].botMessageId).turnId
                   fromHeader == IF header = Null THEN Undefined ELSE header
               IN  /\ header \notin {Null, ""} => turnId = header
                   /\ (header \in {Null, ""} /\ event'.op = "json") =>
                         turnId = IF C6_BodyId(event'.data) # Undefined
                                  THEN C6_BodyId(event'.data) ELSE fromHeader
                   /\ (header \in {Null, ""} /\ event'.op # "json") =>
                         turnId = fromHeader
       /\ \A k \in 1..Len(messages) :
            messages[k].turnId \in {Undefined, ""} =>
               /\ messages'[k].status # "saving-edit"
               /\ (event'.op = "handleSaveEdit" /\ event'.id = messages[k].id
                   /\ Len(saves') > Len(saves)) =>
                      /\ saves'[event'.call].pc = "rejected"
                      /\ messages' = messages]_vars

\* A JSON body's turn_id was used although the header was present, with an
\* empty value
C6_Witness ==
    /\ event.op = "json"
    /\ event.data = C5_Example
    /\ sends[1].pc = "done"
    /\ sends[1].response.header = ""
    /\ Msg("bot-1").turnId = "t1"
    /\ Msg("bot-1").status = "ready"

-----------------------------------------------------------------------------
\* The text of the chunks joined and decoded in one piece
C7_Decoded(chunks) == DecodeStream(NewDecoder, Flatten(chunks)).text

\* What the end of input adds: U+FFFD when the last chunk ended inside a
\* multi-byte sequence, nothing otherwise
C7_Flushed(chunks) == DecodeFlush(DecodeBytes(NewDecoder, Flatten(chunks)).d).text

\* While call i reads the body: status streaming, content = the text of the
\* chunks received so far
C7_WhileReading(i) ==
    sends[i].pc = "read" =>
       /\ Msg(sends[i].botMessageId).status = "streaming"
       /\ Msg(sends[i].botMessageId).content = C7_Decoded(sends[i].received)
       /\ (sends[i].received = <<<<72>>>> =>
              Msg(sends[i].botMessageId).content = <<"H">>)
       /\ (sends[i].received = <<<<72>>, <<105>>>> =>
              Msg(sends[i].botMessageId).content = <<"H", "i">>)

\* A step that leaves call i reading only extends the content, and only a
\* chunk's arrival extends the chunks received
C7_ChunkStep(i) ==
    (sends[i].pc = "read" /\ sends'[i].pc = "read") =>
       /\ IsPrefix(Msg(sends[i].botMessageId).content,
                   MsgAfter(sends[i].botMessageId).content)
       /\ sends'[i].received # sends[i].received =>
             /\ event'.op = "chunk"
             /\ sends'[i].received = Append(sends[i].received, event'.value)

\* The end of call i's stream leaves the message ready with the given text,
\* which the content before it is a prefix of
C7_EndStep(i, final) ==
    (sends[i].pc = "read" /\ sends'[i].pc = "done") =>
       /\ MsgAfter(sends[i].botMessageId).status = "ready"
       /\ IsPrefix(Msg(sends[i].botMessageId).content,
                   MsgAfter(sends[i].botMessageId).content)
       /\ MsgAfter(sends[i].botMessageId).content = final

\* C7 as stated: at the end of the stream the content is exactly the
\* concatenation of the chunks' decoded text, whatever the last chunk ended on.
C7_EndIsConcatenation ==
    /\ [](\A i \in 1..Len(sends) : C7_WhileReading(i))
    /\ [][\A i \in 1..Len(sends) :
            /\ C7_ChunkStep(i)
            /\ C7_EndStep(i, C7_Decoded(sends[i].received))]_vars

\* C7: while a body is streamed, after the k-th chunk the bot message has
\* status streaming and content = the text decoded from chunks 1..k joined in
\* arrival order ("H" then "Hi" for chunks ["H", "i"]); every chunk and the end
\* of the stream only extend the content; at the end of the stream the message
\* is ready with the text of all the chunks, followed by one U+FFFD when the
\* last chunk ended inside a multi-byte sequence.
C7_Streaming ==
    /\ [](\A i \in 1..Len(sends) : C7_WhileReading(i))
    /\ [][\A i \in 1..Len(sends) :
            /\ C7_ChunkStep(i)
            /\ C7_EndStep(i, C7_Decoded(sends[i].received)
                                \o C7_Flushed(sends[i].received))
            /\ (sends[i].pc = "read" /\ sends'[i].pc = "done"
                  /\ sends[i].received = <<<<72>>, <<105>>>>) =>
                  MsgAfter(sends[i].botMessageId).content = <<"H", "i">>]_vars

\* The stream "H", 0xC3 has ended inside a two-byte sequence: the content was
\* "H" while reading and the message is ready with "H" followed by U+FFFD
C7_Witness ==
    /\ event.op = "streamEnd"
    /\ sends[1].pc = "done"
    /\ Msg("bot-1").status = "ready"
    /\ Msg("bot-1").content = <<"H", Chr(ReplacementChar)>>
    /\ Msg("bot-1").error = NoText

-----------------------------------------------------------------------------
\* C9: the log only grows by appending: no step deletes or moves a message or
\* changes an id or a role, and the log is the sequence of the calls' pairs in
\* call order: the k-th handleSend call's user message at 2k-1, immediately
\* followed at 2k by the bot message that call created.
C9_AppendOnlyPairs ==
    /\ [](/\ Len(messages) = 2 * Len(sends)
          /\ UniqueIds(messages)
          /\ \A k \in 1..Len(sends) :
                /\ messages[2 * k - 1].role = "user"
                /\ messages[2 * k - 1].id = "user-" \o ToString(k)
                /\ messages[2 * k].role = "bot"
                /\ messages[2 * k].id = sends[k].botMessageId
                /\ messages[2 * k].id = "bot-" \o ToString(k))
    /\ [][/\ Len(messages') >= Len(messages)
          /\ \A n \in 1..Len(messages) :
                /\ messages'[n].id = messages[n].id
                /\ messages'[n].role = messages[n].role
          /\ Len(messages') > Len(messages) =>
                /\ event'.op = "handleSend"
                /\ Len(messages') = Len(messages) + 2]_vars

\* A second handleSend has appended its pair while the first call's stream is
\* still open with a chunk written
C9_Witness ==
    /\ Len(messages) = 4
    /\ Len(sends) = 2
    /\ sends[1].pc = "read"
    /\ sends[1].received # <<>>
    /\ sends[2].pc = "json"
    /\ messages[2].content = <<"H">>
    /\ messages[3].role = "user"
    /\ messages[4].status = "streaming"

-----------------------------------------------------------------------------
\* C10 as stated: every user message has turnId unset and status unset.
C10_UserStatusUnset ==
    \A n \in 1..Len(messages) :
       messages[n].role = "user" =>
          messages[n].turnId = Undefined /\ messages[n].status = Undefined

\* C10 as amended: a user message never carries a turnId or an error, and its
\* status is "ready" from creation on; only bot messages carry a turnId, an
\* error, or a status other than "ready".
C10_UserFields ==
    \A n \in 1..Len(messages) :
       messages[n].role = "user" =>
          /\ messages[n].turnId = Undefined
          /\ messages[n].error = NoText
          /\ messages[n].status = "ready"
          /\ messages[n].content \in Prompts

\* Both replies went through streaming, ready with a turnId, saving-edit and
\* error, next to their user messages
C10_Witness ==
    /\ Len(messages) = 4
    /\ messages[1].role = "user" /\ messages[1].status = "ready"
    /\ messages[2].status = "saving-edit" /\ messages[2].turnId = "h1"
    /\ messages[3].role = "user" /\ messages[3].status = "ready"
    /\ messages[4].status = "error"

-----------------------------------------------------------------------------
\* The bot message of a handleSend call that runs alone, after the step whose
\* input is event': a function of the call's own response, chunks and the
\* settled value alone
C11_Alone(i) ==
    LET fresh == NewMessage("bot-" \o ToString(i), "bot", <<>>, "streaming")
        header == IF sends[i].response.header = Null THEN Undefined
                  ELSE sends[i].response.header
        patched(changes) == [f \in DOMAIN fresh |->
                                IF f \in DOMAIN changes THEN changes[f] ELSE fresh[f]]
    IN  CASE event'.op = "response" ->
                IF event'.status \in 200..299 THEN fresh
                ELSE patched([content |-> <<>>, status |-> "error",
                              error |-> <<"Unable to generate response (",
                                          ToString(event'.status), ")">>])
          [] event'.op = "json" ->
                patched([content |-> IF event'.data.kind = "object"
                                        /\ event'.data.response.t = "string"
                                     THEN event'.data.response.x
                                     ELSE JsonStringify(event'.data),
                         status |-> "ready",
                         turnId |-> IF header \in {Undefined, ""}
                                       /\ C6_BodyId(event'.data) # Undefined
                                    THEN C6_BodyId(event'.data) ELSE header,
                         error |-> NoText])
          [] event'.op = "chunk" ->
                patched([content |-> C7_Decoded(Append(sends[i].received, event'.value)),
                         status |-> "streaming"])
          [] event'.op = "streamEnd" ->
                patched([content |-> C7_Decoded(sends[i].received)
                                        \o C7_Flushed(sends[i].received),
                         status |-> "ready", turnId |-> header, error |-> NoText])
          [] event'.op = "text" ->
                patched([content |-> event'.text, status |-> "ready",
                         turnId |-> header, error |-> NoText])
          [] OTHER ->
                patched([content |-> <<>>, status |-> "error",
                         error |-> IF event'.thrown.isError THEN event'.thrown.message
                                   ELSE <<"Unexpected error">>])

\* The steps of a handleSend call after its first
C11_SendSteps ==
    {"response", "fetchRejected", "json", "jsonRejected", "chunk", "streamEnd",
     "readRejected", "text", "textRejected"}

\* C11: with handleSend calls overlapping in any order, every step of call i
\* leaves call i's bot message (the 2i-th of the log) exactly as the same step
\* leaves it when the call runs alone, a function of that call's own response
\* alone, and changes no other message; a call's first step only appends its
\* own pair. No step of one call touches another call's pair.
C11_OwnPairOnly ==
    [][/\ event'.op \in C11_SendSteps =>
            /\ Len(messages') = Len(messages)
            /\ messages'[2 * event'.call] = C11_Alone(event'.call)
            /\ \A n \in 1..Len(messages) :
                  n # 2 * event'.call => messages'[n] = messages[n]
       /\ event'.op = "handleSend" =>
            /\ Len(messages') = Len(messages) + 2
            /\ \A n \in 1..Len(messages) : messages'[n] = messages[n]
            /\ messages'[2 * event'.call - 1] =
                  NewMessage("user-" \o ToString(event'.call), "user", event'.text, "ready")
            /\ messages'[2 * event'.call] =
                  NewMessage("bot-" \o ToString(event'.call), "bot", <<>>, "streaming")]_vars

\* The second call was answered first, and then the first call failed: each
\* reply holds its own call's outcome
C11_Witness ==
    /\ Len(sends) = 2
    /\ event.op = "fetchRejected" /\ event.call = 1
    /\ sends[1].pc = "failed" /\ sends[2].pc = "done"
    /\ messages[2].status = "error" /\ messages[2].content = <<>>
    /\ messages[2].error = <<"Failed to fetch">>
    /\ messages[4].status = "ready" /\ messages[4].content = <<"h", "i">>
    /\ messages[4].turnId = "t1" /\ messages[4].error = NoText

-----------------------------------------------------------------------------
\* C18: in every reachable state, also with handleSend calls overlapping,
\* isGenerating is true whenever some bot message has status streaming.
C18_BusyWhileStreaming ==
    \A n \in 1..Len(messages) : messages[n].status = "streaming" => isGenerating

\* The first of two overlapping calls has failed and cleared the flag while the
\* second call's reply is still streaming
C18_Witness ==
    /\ Len(sends) = 2
    /\ sends[1].pc = "failed"
    /\ sends[2].pc = "read"
    /\ messages[4].status = "streaming"
    /\ ~isGenerating

-----------------------------------------------------------------------------
\* C19: in every reachable state a message whose turnId is set is a bot message
\* in status ready or saving-edit, the reply of a handleSend call that completed
\* successfully; a turnId once set never changes; and every save in flight
\* targets such a reply.
C19_TurnIdOnlyOnCompleted ==
    /\ [](/\ \A n \in 1..Len(messages) :
                messages[n].turnId # Undefined =>
                   /\ messages[n].role = "bot"
                   /\ messages[n].status \in {"ready", "saving-edit"}
                   /\ \E i \in 1..Len(sends) :
                         sends[i].botMessageId = messages[n].id /\ sends[i].pc = "done"
          /\ \A j \in 1..Len(saves) :
                saves[j].pc \in {"fetch", "json"} =>
                   \E i \in 1..Len(sends) :
                      /\ sends[i].botMessageId = saves[j].messageId
                      /\ sends[i].pc = "done"
                      /\ saves[j].turnId = messages[2 * i].turnId)
    /\ [][\A n \in 1..Len(messages) :
            messages[n].turnId # Undefined => messages'[n].turnId = messages[n].turnId]_vars

\* A reply with a turnId was saved and is ready again with the new text and the
\* same turnId, next to a reply that failed and carries none
C19_Witness ==
    /\ Len(messages) = 4
    /\ event.op = "saveJson"
    /\ messages[2].turnId = "t1" /\ messages[2].status = "ready"
    /\ messages[2].content = <<"n", "e", "w">>
    /\ messages[4].status = "error" /\ messages[4].turnId = Undefined

-----------------------------------------------------------------------------
\* The status changes a bot message may make
C15_Allowed ==
    { <<"streaming", "ready">>, <<"streaming", "error">>,
      <<"ready", "saving-edit">>, <<"saving-edit", "ready">> }

\* C15: under any interleaving of sends and saves, every change of a bot
\* message's status is streaming -> ready, streaming -> error, ready ->
\* saving-edit or saving-edit -> ready; a bot message is created streaming with
\* empty content; a message in error never changes again; and a message that
\* has been ready is never streaming again.
C15_StatusTransitions ==
    /\ [](\A n \in 1..Len(messages) :
            messages[n].role = "bot" =>
               messages[n].status \in {"streaming", "ready", "error", "saving-edit"})
    /\ [][/\ \A n \in 1..Len(messages) :
               messages[n].role = "bot" =>
                  /\ messages'[n].status # messages[n].status =>
                        <<messages[n].status, messages'[n].status>> \in C15_Allowed
                  /\ messages[n].status = "error" => messages'[n] = messages[n]
                  /\ messages[n].status \in {"ready", "saving-edit"} =>
                        messages'[n].status \in {"ready", "saving-edit"}
          /\ \A n \in (Len(messages) + 1)..Len(messages') :
               messages'[n].role = "bot" =>
                  messages'[n].status = "streaming" /\ messages'[n].content = <<>>]_vars

\* A reply went streaming -> ready -> saving-edit -> ready (its save failed),
\* while the other call's reply went streaming -> error
C15_Witness ==
    /\ Len(messages) = 4
    /\ event.op = "saveFetchRejected"
    /\ messages[2].status = "ready"
    /\ messages[2].error = <<"Failed to fetch">>
    /\ messages[2].turnId # Undefined
    /\ messages[4].status = "error"

-----------------------------------------------------------------------------
\* new TextDecoder().decode(bytes): the bytes decoded in one call, unsplit
C14_Unsplit(bytes) ==
    LET r == DecodeBytes(NewDecoder, bytes)
        out == r.out \o (IF r.d.needed # 0 THEN <<ReplacementChar>> ELSE <<>>)
        text == IF out # <<>> /\ Head(out) = ByteOrderMark THEN Tail(out) ELSE out
    IN  [k \in 1..Len(text) |-> Chr(text[k])]

\* C14: however the bytes of a streamed body are cut into chunks, also inside a
\* multi-byte character or the byte order mark, the content the stream's end
\* leaves is the decoding of the unsplit bytes: U+00E9 cut as C3 | A9 and
\* U+20AC cut as E2 82 | AC or E2 | 82 AC come out whole, with no U+FFFD.
C14_SplitEqualsUnsplit ==
    [][\A i \in 1..Len(sends) :
         (sends[i].pc = "read" /\ sends'[i].pc = "done") =>
            LET final == MsgAfter(sends[i].botMessageId).content
                chunks == sends[i].received
            IN  /\ final = C14_Unsplit(Flatten(chunks))
                /\ (chunks = <<<<195>>, <<169>>>> => final = <<"U+233">>)
                /\ (chunks = <<<<226, 130>>, <<172>>>> => final = <<"U+8364">>)
                /\ (chunks = <<<<226>>, <<130, 172>>>> => final = <<"U+8364">>)
                /\ (chunks = <<<<240, 159>>, <<152, 128>>>> => final = <<"U+128512">>)
                /\ (chunks = <<<<239>>, <<187, 191>>>> => final = <<>>)
                /\ (chunks = <<<<72>>, <<195>>>> => final = <<"H", "U+65533">>)]_vars

\* U+20AC has arrived cut after its second byte, E2 82 | AC: the content was
\* empty after the first chunk and holds the one character after the second
C14_Witness ==
    /\ event.op = "chunk"
    /\ sends[1].pc = "read"
    /\ sends[1].received = <<<<226, 130>>, <<172>>>>
    /\ sends[1].decoder.needed = 0
    /\ Msg("bot-1").status = "streaming"
    /\ Msg("bot-1").content = <<"U+8364">>

-----------------------------------------------------------------------------
\* C16: when every request and every body read eventually settles, every bot
\* message in status streaming eventually is ready or error, every message in
\* status saving-edit eventually is ready again, and isGenerating eventually is
\* false after each handleSend.
C16_Settles ==
    /\ \A n \in 1..(2 * MaxSends) :
          (n <= Len(messages) /\ messages[n].status = "streaming")
             ~> (n <= Len(messages) /\ messages[n].status \in {"ready", "error"})
    /\ \A n \in 1..(2 * MaxSends) :
          (n <= Len(messages) /\ messages[n].status = "saving-edit")
             ~> (n <= Len(messages) /\ messages[n].status = "ready")
    /\ isGenerating ~> ~isGenerating

\* Two overlapping calls and two saves have all settled: no message is
\* streaming or saving-edit and isGenerating is false
C16_Witness ==
    /\ Len(sends) = 2 /\ Len(saves) = 2
    /\ \A i \in 1..2 : sends[i].pc \in {"done", "failed"}
    /\ \A j \in 1..2 : saves[j].pc \in {"done", "rejected"}
    /\ \A n \in 1..Len(messages) : messages[n].status \in {"ready", "error"}
    /\ messages[2].status = "ready" /\ messages[4].status = "error"
    /\ ~isGenerating

-----------------------------------------------------------------------------
\* C17: the step that completes a save changes the edit session (editingId,
\* draft) only when the save succeeded and its message is the one being edited;
\* a failed save keeps editingId and draft and sets localError; and a save of
\* message A completing while another message B is being edited leaves B's
\* edit box open, B's draft as typed and no error of A shown on B.
C17_EditSessionKept ==
    [][\A j \in 1..Len(saves) :
         (saves[j].pc \in {"fetch", "json"} /\ saves'[j].pc \in {"done", "rejected"}) =>
            LET A == saves[j].messageId
            IN  /\ (ui'.editingId # ui.editingId \/ ui'.draft # ui.draft) =>
                      saves'[j].pc = "done" /\ ui.editingId = A
                /\ saves'[j].pc = "rejected" =>
                      /\ ui'.editingId = ui.editingId
                      /\ ui'.draft = ui.draft
                      /\ (ui.editingId = A => ui'.localError # NullText)
                /\ ui.editingId \notin {Null, A} =>
                      /\ ui'.editingId = ui.editingId
                      /\ ui'.draft = ui.draft
                      /\ ui'.localError = ui.localError]_vars

\* While the save of the first reply is in flight the user has opened the edit
\* box of the second reply and typed a draft
C17_Witness ==
    /\ Len(saves) >= 1
    /\ saves[1].pc = "fetch" /\ saves[1].messageId = "bot-1"
    /\ Msg("bot-1").status = "saving-edit"
    /\ ui.editingId = "bot-2"
    /\ ui.draft = <<"e", "d", " ">>
    /\ ui.localError = NullText

-----------------------------------------------------------------------------
\* C13: from the step in which handleSaveEdit passes its turnId check until its
\* request settles, the target message has status saving-edit and the content
\* it had before the save; the request is issued in the step that changes the
\* status, never before it.
C13_SavingObservable ==
    /\ [](\A j \in 1..Len(saves) :
            saves[j].pc \in {"fetch", "json"} =>
               /\ Msg(saves[j].messageId).status = "saving-edit"
               /\ \E r \in requests : r.url = "/save_edit" /\ r.call = j)
    /\ [][/\ \A j \in 1..Len(saves) :
               (saves[j].pc \in {"fetch", "json"} /\ saves'[j].pc \in {"fetch", "json"}) =>
                  MsgAfter(saves[j].messageId).content = Msg(saves[j].messageId).content
          /\ \A j \in (Len(saves) + 1)..Len(saves') :
               saves'[j].pc = "fetch" =>
                  /\ \A r \in requests : ~(r.url = "/save_edit" /\ r.call = j)
                  /\ Msg(saves'[j].messageId).status # "saving-edit"
                  /\ MsgAfter(saves'[j].messageId).status = "saving-edit"
                  /\ MsgAfter(saves'[j].messageId).content =
                        Msg(saves'[j].messageId).content
          /\ \A r \in requests' \ requests :
               r.url = "/save_edit" =>
                  /\ saves'[r.call].pc = "fetch"
                  /\ MsgAfter(saves'[r.call].messageId).status = "saving-edit"]_vars

\* The edit "ed" of the first reply is being saved: the reply shows saving-edit
\* and still holds "hi", and the request is out
C13_Witness ==
    /\ Len(saves) = 1
    /\ saves[1].pc = "fetch" /\ saves[1].messageId = "bot-1"
    /\ saves[1].content = <<"e", "d">>
    /\ Msg("bot-1").status = "saving-edit"
    /\ Msg("bot-1").content = <<"h", "i">>
    /\ \E r \in requests : r.url = "/save_edit" /\ r.turn_id = "t1"

-----------------------------------------------------------------------------
\* The steps that settle a handleSaveEdit call
C12_SaveSteps == {"saveFetchRejected", "saveResponse", "saveJson", "saveJsonRejected"}

\* C12: a surfaced error stays until the user retries or clears it. The
\* page-level errorMessage, once set, becomes null only in the step that
\* starts a new send (which is also where the form invokes onClearError). The
\* error of a message in status error never changes. The error a failed edit
\* left on a reply changes only in the step that settles a save of that same
\* reply, and is cleared only by the success of one; no other save of the
\* reply is in flight when a failed edit sets the error, so the save that
\* clears it is a later attempt.
C12_ErrorsStay ==
    [][/\ (errorMessage # NullText /\ errorMessage' = NullText) =>
             event'.op \in {"handleSend", "onClearError"}
       /\ \A n \in 1..Len(messages) :
             /\ messages[n].status = "error" =>
                   /\ messages[n].error # NoText
                   /\ messages'[n].error = messages[n].error
                   /\ messages'[n].status = "error"
             /\ (messages[n].status # "error" /\ messages[n].error # NoText
                 /\ messages'[n].error # messages[n].error) =>
                   /\ event'.op \in C12_SaveSteps
                   /\ saves[event'.call].messageId = messages[n].id
                   /\ saves'[event'.call].pc \in {"done", "rejected"}
                   /\ messages'[n].error = NoText <=> saves'[event'.call].pc = "done"
       /\ \A j \in 1..Len(saves) :
             (saves[j].pc \in {"fetch", "json"} /\ saves'[j].pc = "rejected") =>
                /\ MsgAfter(saves[j].messageId).error # NoText
                /\ \A k \in 1..Len(saves) :
                      (k # j /\ saves[k].pc \in {"fetch", "json"}) =>
                         saves[k].messageId # saves[j].messageId]_vars

\* A generation failed and an edit of the first reply failed; a second save of
\* that reply then succeeded and cleared the reply's error, while the page
\* still shows the generation's error and the failed reply keeps its own
C12_Witness ==
    /\ Len(saves) = 2
    /\ saves[1].pc = "rejected" /\ saves[2].pc = "done"
    /\ event.op \in C12_SaveSteps /\ event.call = 2
    /\ Msg("bot-1").status = "ready" /\ Msg("bot-1").error = NoText
    /\ Len(messages) = 4
    /\ messages[4].status = "error"
    /\ messages[4].error = <<"Unable to generate response (", "500", ")">>
    /\ errorMessage = <<"Unable to generate response (", "500", ")">>

====
